---- MODULE Spec2Model ----
(***************************************************************************)
(* Artistly: the client-side Filter Engine (hooks/use-optimized-filters),  *)
(* the simulated GraphQL endpoint (lib/graphql.ts), the shared state       *)
(* container (contexts/AppContext) and the pages that load and add records *)
(* (the artists listing page and the onboarding form).                     *)
(*                                                                         *)
(* JavaScript strings that the code inspects character by character        *)
(* (documents, locations, identifiers) are sequences of one-character      *)
(* strings; strings the code only compares for equality (category tags,    *)
(* names) are TLA+ strings.                                                *)
(***************************************************************************)
EXTENDS Integers, Sequences, FiniteSets, TLC

VARIABLES
    artists,          \* AppState.artists, the record set handed to useOptimizedFilters
    filters,          \* useOptimizedFilters: the committed `filters` state
    deferredFilters,  \* useOptimizedFilters: useDeferredValue(filters)
    isPending,        \* useOptimizedFilters: the useTransition flag
    nextFilters,      \* `filters` with the queued transition updates applied
    dataArtists,      \* lib/data `artists`: the fixed record set of the resolver
    gqlPc,            \* graphqlRequest: "idle" | "delay" | "done"
    gqlQuery,         \* graphqlRequest: query.query, the document
    gqlVariables,     \* graphqlRequest: query.variables
    gqlFields,        \* graphqlRequest: const fields
    gqlOperation,     \* graphqlRequest: let operation
    gqlData,          \* graphqlRequest: const data, the resolver's result
    gqlResponse,      \* graphqlRequest: the resolved GraphQLResponse
    stateIsLoading,   \* AppState.isLoading
    stateFilters,     \* AppState.filters
    stateTheme,       \* AppState.theme
    stateNotifications, \* AppState.notifications
    now,              \* Date.now(), in milliseconds since the application started
    route,            \* the page the router shows: "home" | "artists" | "onboarding"
    initialCategory,  \* ArtistsPageContent: the category of the URL, 'all' without one
    isLoading,        \* ArtistsPageContent: the local `isLoading` state
    hasLoadedInitialData, \* ArtistsPageContent: the local `hasLoadedInitialData` state
    fetches,          \* the fetchArtists calls started so far, one per mount of the page
    lastWrite         \* the last write to a filter configuration, and what it found

filterVars == <<artists, filters, deferredFilters, isPending, nextFilters>>

gqlVars == <<dataArtists, gqlPc, gqlQuery, gqlVariables, gqlFields, gqlOperation,
             gqlData, gqlResponse>>

\* the slices of the container other than the record set
stateVars == <<stateIsLoading, stateFilters, stateTheme, stateNotifications>>

pageVars == <<route, initialCategory, isLoading, hasLoadedInitialData, fetches>>

appVars == <<stateIsLoading, stateFilters, stateTheme, stateNotifications, now,
             route, initialCategory, isLoading, hasLoadedInitialData, fetches>>

vars == <<artists, filters, deferredFilters, isPending, nextFilters, dataArtists,
          gqlPc, gqlQuery, gqlVariables, gqlFields, gqlOperation, gqlData,
          gqlResponse, stateIsLoading, stateFilters, stateTheme,
          stateNotifications, now, route, initialCategory, isLoading,
          hasLoadedInitialData, fetches, lastWrite>>

(***************************************************************************)
(* Bounds of the model.                                                    *)
(***************************************************************************)
MaxArtists == 2

MaxDocParts == 3

\* the clock runs from 0 to MaxTime milliseconds
MaxTime == 1

\* the listing page mounts at most MaxMounts times
MaxMounts == 1

\* the form is submitted while the notification list is shorter than this
MaxNotifications == 2

(***************************************************************************)
(* Strings as character sequences.                                         *)
(***************************************************************************)
Upper == <<"A","B","C","D","E","F","G","H","I","J","K","L","M",
           "N","O","P","Q","R","S","T","U","V","W","X","Y","Z">>

Lower == <<"a","b","c","d","e","f","g","h","i","j","k","l","m",
           "n","o","p","q","r","s","t","u","v","w","x","y","z">>

\* String.prototype.toLowerCase, one character
lowerChar(c) ==
    IF \E i \in 1..26 : Upper[i] = c
    THEN Lower[CHOOSE i \in 1..26 : Upper[i] = c]
    ELSE c

\* String.prototype.toLowerCase
toLowerCase(s) == [i \in 1..Len(s) |-> lowerChar(s[i])]

\* String.prototype.includes: needle occurs in s as a contiguous substring
includes(s, needle) ==
    \E i \in 0..(Len(s) - Len(needle)) : SubSeq(s, i + 1, i + Len(needle)) = needle

\* String.prototype.startsWith
startsWith(s, prefix) ==
    Len(prefix) <= Len(s) /\ SubSeq(s, 1, Len(prefix)) = prefix

\* Array.prototype.includes on an array of tags
arrayIncludes(arr, x) == \E i \in 1..Len(arr) : arr[i] = x

(***************************************************************************)
(* Artist records (lib/types Artist).  The contents of lib/data are left   *)
(* open: record sets range over sequences of these records.                *)
(***************************************************************************)
NewYork == <<"N","e","w"," ","Y","o","r","k">>

Boston == <<"B","o","s","t","o","n">>

Newark == <<"N","e","w","a","r","k">>

TempPrefix == <<"t","e","m","p","-">>

ArtistPool ==
    { [id |-> <<"1">>, name |-> "Ava", categories |-> <<"singer">>,
       location |-> NewYork, priceRange |-> [min |-> 500, max |-> 1000],
       bio |-> "bio1", imageUrl |-> "img1", languages |-> <<"english">>],
      [id |-> <<"2">>, name |-> "Ben", categories |-> <<"dj">>,
       location |-> Boston, priceRange |-> [min |-> 2000, max |-> 3000],
       bio |-> "bio2", imageUrl |-> "img2", languages |-> <<"english", "hindi">>],
      [id |-> <<"3">>, name |-> "Cy", categories |-> <<"singer", "dj">>,
       location |-> Newark, priceRange |-> [min |-> 6000, max |-> 8000],
       bio |-> "bio3", imageUrl |-> "img3", languages |-> <<"french">>],
      [id |-> TempPrefix \o <<"7">>, name |-> "Dee", categories |-> <<"dancer">>,
       location |-> Boston, priceRange |-> [min |-> 5000, max |-> 10000],
       bio |-> "bio4", imageUrl |-> "https://placehold.co/400x400.png",
       languages |-> <<"spanish">>] }

\* Artist[]: the arrays of at most n records
ArtistArrays(n) == UNION { [1..k -> ArtistPool] : k \in 0..n }

(***************************************************************************)
(* Filter Engine: useOptimizedFilters.                                     *)
(***************************************************************************)
\* the useState initial value, also what clearFilters sets
DefaultFilters == [category |-> "all", location |-> <<>>, price |-> <<0, 5000>>]

\* values callers hand to updateFilters (the hook validates none of them)
CategoryChoices == {"all", "singer", "dj"}

LocationChoices == { <<>>, <<"N","E","w">> }

PriceChoices == { <<0, 5000>>, <<0, 1000>>, <<900, 600>>, <<5500, 9000>>,
                  <<11000, 12000>> }

\* Partial<FilterConfig> payloads naming one field, as handleFilterChange builds them
FilterPayloads ==
    { [f \in {"category"} |-> c] : c \in CategoryChoices }
      \cup { [f \in {"location"} |-> l] : l \in LocationChoices }
      \cup { [f \in {"price"} |-> p] : p \in PriceChoices }

\* artistPasses with the location test comparing without folding the filter's case
artistPassesCaseSensitive(artist, config) ==
    IF config.category # "all" /\ ~arrayIncludes(artist.categories, config.category)
    THEN FALSE
    ELSE IF config.location # <<>>
            /\ ~includes(toLowerCase(artist.location), config.location)
    THEN FALSE
    ELSE IF artist.priceRange.min > config.price[2]
            \/ artist.priceRange.max < config.price[1]
    THEN FALSE
    ELSE TRUE

\* artistPasses with the two bounds of the price interval swapped
artistPassesSwappedPrice(artist, config) ==
    IF config.category # "all" /\ ~arrayIncludes(artist.categories, config.category)
    THEN FALSE
    ELSE IF config.location # <<>>
            /\ ~includes(toLowerCase(artist.location), toLowerCase(config.location))
    THEN FALSE
    ELSE IF artist.priceRange.min > config.price[1]
            \/ artist.priceRange.max < config.price[2]
    THEN FALSE
    ELSE TRUE

\* artistPasses with the price test as containment instead of overlap
artistPassesContainment(artist, config) ==
    IF config.category # "all" /\ ~arrayIncludes(artist.categories, config.category)
    THEN FALSE
    ELSE IF config.location # <<>>
            /\ ~includes(toLowerCase(artist.location), toLowerCase(config.location))
    THEN FALSE
    ELSE IF artist.priceRange.min < config.price[1]
            \/ artist.priceRange.max > config.price[2]
    THEN FALSE
    ELSE TRUE

\* the callback of artists.filter: false on the first failing test
artistPasses(artist, config) ==
    IF config.category # "all" /\ ~arrayIncludes(artist.categories, config.category)
    THEN FALSE
    ELSE IF config.location # <<>>
            /\ ~includes(toLowerCase(artist.location), toLowerCase(config.location))
    THEN FALSE
    ELSE IF artist.priceRange.min > config.price[2]
            \/ artist.priceRange.max < config.price[1]
    THEN FALSE
    ELSE TRUE

\* Array.prototype.filter with the callback above
RECURSIVE filterArtists(_, _)
filterArtists(arr, config) ==
    IF arr = <<>> THEN <<>>
    ELSE IF artistPasses(Head(arr), config)
         THEN <<Head(arr)>> \o filterArtists(Tail(arr), config)
         ELSE filterArtists(Tail(arr), config)

\* the useMemo over [artists, deferredFilters]
filteredArtists == filterArtists(artists, deferredFilters)

\* String.prototype.charCodeAt for the characters locations are written
\* with: the space, the upper-case and the lower-case letters
charCodeAt(c) ==
    CASE c = " " -> 32
      [] \E i \in 1..26 : Upper[i] = c -> 64 + (CHOOSE i \in 1..26 : Upper[i] = c)
      [] \E i \in 1..26 : Lower[i] = c -> 96 + (CHOOSE i \in 1..26 : Lower[i] = c)

\* the default comparison of Array.prototype.sort: a sorts before b when, at
\* the first position where they differ, a has the smaller code unit, or a
\* ends there and b goes on
sortsBefore(a, b) ==
    \E k \in 1..(Len(a) + 1) :
        /\ k <= Len(b)
        /\ \A j \in 1..(k - 1) : a[j] = b[j]
        /\ (k = Len(a) + 1 \/ charCodeAt(a[k]) < charCodeAt(b[k]))

\* new Set(values) read with Array.from: each value once, in the order of
\* its first occurrence
RECURSIVE arrayFromSet(_)
arrayFromSet(values) ==
    IF values = <<>> THEN <<>>
    ELSE LET init == arrayFromSet(SubSeq(values, 1, Len(values) - 1))
             last == values[Len(values)]
         IN  IF \E i \in 1..Len(init) : init[i] = last THEN init ELSE Append(init, last)

\* Array.prototype.sort() of distinct strings
RECURSIVE sort(_)
sort(xs) ==
    IF xs = <<>> THEN <<>>
    ELSE LET m == CHOOSE i \in 1..Len(xs) :
                      \A j \in 1..Len(xs) : j = i \/ sortsBefore(xs[i], xs[j])
         IN  <<xs[m]>> \o sort(SubSeq(xs, 1, m - 1) \o SubSeq(xs, m + 1, Len(xs)))

\* availableLocations without the sort
availableLocationsUnsorted ==
    arrayFromSet([i \in 1..Len(artists) |-> artists[i].location])

\* the useMemo over [artists] giving the options of the location filter
availableLocations ==
    sort(arrayFromSet([i \in 1..Len(artists) |-> artists[i].location]))

\* artists.flatMap(artist => [artist.priceRange.min, artist.priceRange.max])
RECURSIVE flatPrices(_)
flatPrices(arr) ==
    IF arr = <<>> THEN <<>>
    ELSE <<Head(arr).priceRange.min, Head(arr).priceRange.max>> \o flatPrices(Tail(arr))

\* Math.min(...xs) and Math.max(...xs) of a non-empty list
MathMin(xs) == CHOOSE m \in {xs[i] : i \in 1..Len(xs)} : \A i \in 1..Len(xs) : m <= xs[i]

MathMax(xs) == CHOOSE m \in {xs[i] : i \in 1..Len(xs)} : \A i \in 1..Len(xs) : m >= xs[i]

\* priceStats with the spread of the first two prices only
priceStatsOfFirst ==
    IF Len(artists) = 0 THEN [min |-> 0, max |-> 5000]
    ELSE [min |-> MathMin(SubSeq(flatPrices(artists), 1, 2)),
          max |-> MathMax(SubSeq(flatPrices(artists), 1, 2))]

\* the useMemo over [artists] giving the bounds of the price slider
priceStats ==
    IF Len(artists) = 0 THEN [min |-> 0, max |-> 5000]
    ELSE [min |-> MathMin(flatPrices(artists)), max |-> MathMax(flatPrices(artists))]

\* the merge without the spread of prev: fields the payload does not name
\* go back to their defaults
mergeFiltersReplacing(prev, newFilters) ==
    [k \in DOMAIN prev \cup DOMAIN newFilters |->
        IF k \in DOMAIN newFilters THEN newFilters[k] ELSE DefaultFilters[k]]

\* prev => ({ ...prev, ...newFilters })
mergeFilters(prev, newFilters) ==
    [k \in DOMAIN prev \cup DOMAIN newFilters |->
        IF k \in DOMAIN newFilters THEN newFilters[k] ELSE prev[k]]

\* updateFilters outside a transition mark: the pending flag is not raised
updateFiltersUnmarked(newFilters) ==
    /\ nextFilters' = mergeFilters(nextFilters, newFilters)
    /\ isPending' = isPending
    /\ UNCHANGED <<artists, filters, deferredFilters>>
    /\ UNCHANGED gqlVars
    /\ UNCHANGED appVars

\* updateFilters: startTransition(() => setFilters(prev => ({...prev, ...newFilters})))
updateFilters(newFilters) ==
    /\ nextFilters' = mergeFilters(nextFilters, newFilters)
    /\ isPending' = TRUE
    /\ UNCHANGED <<artists, filters, deferredFilters>>
    /\ UNCHANGED gqlVars
    /\ UNCHANGED appVars

\* clearFilters that keeps the category
clearFiltersKeepingCategory ==
    /\ nextFilters' = [category |-> nextFilters.category, location |-> <<>>, price |-> <<0, 5000>>]
    /\ isPending' = TRUE
    /\ UNCHANGED <<artists, filters, deferredFilters>>
    /\ UNCHANGED gqlVars
    /\ UNCHANGED appVars

\* clearFilters: startTransition(() => setFilters({category:'all', location:'', price:[0,5000]}))
clearFilters ==
    /\ nextFilters' = [category |-> "all", location |-> <<>>, price |-> <<0, 5000>>]
    /\ isPending' = TRUE
    /\ UNCHANGED <<artists, filters, deferredFilters>>
    /\ UNCHANGED gqlVars
    /\ UNCHANGED appVars

\* a commit after which useDeferredValue still holds the value of the
\* render before
TransitionCommitLagging ==
    /\ isPending
    /\ filters' = nextFilters
    /\ deferredFilters' = filters
    /\ isPending' = FALSE
    /\ UNCHANGED <<artists, nextFilters>>
    /\ UNCHANGED gqlVars
    /\ UNCHANGED appVars

\* React commits the transition render: the queued updates reach `filters`,
\* useDeferredValue adopts the value in the same (non-urgent) render, and
\* isPending is reset
TransitionCommit ==
    /\ isPending
    /\ filters' = nextFilters
    /\ deferredFilters' = nextFilters
    /\ isPending' = FALSE
    /\ UNCHANGED <<artists, nextFilters>>
    /\ UNCHANGED gqlVars
    /\ UNCHANGED appVars

(***************************************************************************)
(* Query Resolver: lib/graphql.ts.                                         *)
(***************************************************************************)
\* white space as String.prototype.trim and the regular expression class \s see it
isSpace(c) == c \in {" ", "\t", "\n", "\r"}

\* String.prototype.trim
RECURSIVE trimStart(_)
trimStart(s) ==
    IF s # <<>> /\ isSpace(Head(s)) THEN trimStart(Tail(s)) ELSE s

RECURSIVE trimEnd(_)
trimEnd(s) ==
    IF s # <<>> /\ isSpace(s[Len(s)]) THEN trimEnd(SubSeq(s, 1, Len(s) - 1)) ELSE s

trim(s) == trimEnd(trimStart(s))

\* String.prototype.split('\n')
RECURSIVE splitLines(_)
splitLines(s) ==
    IF \E i \in 1..Len(s) : s[i] = "\n"
    THEN LET i == CHOOSE i \in 1..Len(s) :
                     s[i] = "\n" /\ \A j \in 1..(i - 1) : s[j] # "\n"
         IN  <<SubSeq(s, 1, i - 1)>> \o splitLines(SubSeq(s, i + 1, Len(s)))
    ELSE <<s>>

\* positions where /\{([^}]+)\}/ matches: an opening brace, at least one
\* character that is not a closing brace, then a closing brace
matchStarts(query) ==
    { i \in 1..Len(query) :
        /\ query[i] = "{"
        /\ i + 1 <= Len(query)
        /\ query[i + 1] # "}"
        /\ \E j \in (i + 2)..Len(query) : query[j] = "}" }

\* query.match(/\{([^}]+)\}/)[1]: the capture of the leftmost match, which
\* runs up to the first closing brace after the opening one
fieldMatch1(query) ==
    LET i == CHOOSE i \in matchStarts(query) : \A k \in matchStarts(query) : i <= k
        j == CHOOSE j \in (i + 2)..Len(query) :
                 query[j] = "}" /\ \A k \in (i + 1)..(j - 1) : query[k] # "}"
    IN  SubSeq(query, i + 1, j - 1)

\* line.replace(/\s*\{.*$/, ''): the line loses its first opening brace, the
\* white space right before it, and all that follows
replaceBrace(line) ==
    IF \E q \in 1..Len(line) : line[q] = "{"
    THEN LET q == CHOOSE q \in 1..Len(line) :
                     line[q] = "{" /\ \A k \in 1..(q - 1) : line[k] # "{"
         IN  trimEnd(SubSeq(line, 1, q - 1))
    ELSE line

\* Array.prototype.filter(line => line && !line.startsWith('#'))
RECURSIVE keepFieldLines(_)
keepFieldLines(lines) ==
    IF lines = <<>> THEN <<>>
    ELSE IF Head(lines) # <<>> /\ ~startsWith(Head(lines), <<"#">>)
         THEN <<Head(lines)>> \o keepFieldLines(Tail(lines))
         ELSE keepFieldLines(Tail(lines))

\* parseQuery
parseQuery(query) ==
    IF matchStarts(query) = {} THEN <<>>
    ELSE LET lines == splitLines(fieldMatch1(query))
             trimmed == [i \in 1..Len(lines) |-> trim(lines[i])]
             kept == keepFieldLines(trimmed)
         IN  [i \in 1..Len(kept) |-> trim(replaceBrace(kept[i]))]

\* classify with the category pattern tested before the single-record pattern
classifyCategoryFirst(queryString) ==
    IF includes(queryString, <<"a","r","t","i","s","t","s","B","y","C","a","t","e","g","o","r","y">>)
    THEN "artistsByCategory"
    ELSE IF includes(queryString, <<"a","r","t","i","s","t","(">>) THEN "artist"
    ELSE IF includes(queryString, <<"a","r","t","i","s","t","s","B","y","L","o","c","a","t","i","o","n">>)
         THEN "artistsByLocation"
    ELSE "artists"

\* the if / else if chain choosing `operation`
classify(queryString) ==
    IF includes(queryString, <<"a","r","t","i","s","t","(">>) THEN "artist"
    ELSE IF includes(queryString, <<"a","r","t","i","s","t","s","B","y","C","a","t","e","g","o","r","y">>)
         THEN "artistsByCategory"
    ELSE IF includes(queryString, <<"a","r","t","i","s","t","s","B","y","L","o","c","a","t","i","o","n">>)
         THEN "artistsByLocation"
    ELSE "artists"

\* args.<name>, undefined when the mapping has no such entry
Undefined == [kind |-> "undefined"]

hasArg(args, name) == name \in DOMAIN args

\* Array.prototype.filter over the fixed record set; keep[i] is the callback's
\* result on arr[i]
RECURSIVE selectArtists(_, _)
selectArtists(arr, keep) ==
    IF arr = <<>> THEN <<>>
    ELSE IF Head(keep) THEN <<Head(arr)>> \o selectArtists(Tail(arr), Tail(keep))
         ELSE selectArtists(Tail(arr), Tail(keep))

\* resolvers.artists
resolveArtists(args) == [kind |-> "list", items |-> dataArtists]

\* resolvers.artist: artists.find(a => a.id === args.id)
resolveArtist(args) ==
    LET hit(a) == hasArg(args, "id") /\ a.id = args.id
    IN  IF \E i \in 1..Len(dataArtists) : hit(dataArtists[i])
        THEN [kind |-> "object",
              value |-> dataArtists[CHOOSE i \in 1..Len(dataArtists) :
                            hit(dataArtists[i]) /\ \A j \in 1..(i - 1) : ~hit(dataArtists[j])]]
        ELSE Undefined

\* resolvers.artistsByCategory: artists.filter(a => a.categories.includes(args.category))
resolveArtistsByCategory(args) ==
    LET keep(a) == hasArg(args, "category") /\ arrayIncludes(a.categories, args.category)
    IN  [kind |-> "list",
         items |-> selectArtists(dataArtists,
                                 [i \in 1..Len(dataArtists) |-> keep(dataArtists[i])])]

\* resolveArtistsByLocation comparing without folding the argument's case
resolveArtistsByLocationCaseSensitive(args) ==
    IF ~hasArg(args, "location")
    THEN IF dataArtists = <<>> THEN [kind |-> "list", items |-> <<>>]
         ELSE [kind |-> "throw",
               message |-> "Cannot read properties of undefined (reading 'toLowerCase')"]
    ELSE LET keep(a) == includes(toLowerCase(a.location), args.location)
         IN  [kind |-> "list",
              items |-> selectArtists(dataArtists,
                                      [i \in 1..Len(dataArtists) |-> keep(dataArtists[i])])]

\* resolvers.artistsByLocation:
\* artists.filter(a => a.location.toLowerCase().includes(args.location.toLowerCase()));
\* args.location.toLowerCase() throws a TypeError on the first record when
\* the location argument is undefined
resolveArtistsByLocation(args) ==
    IF ~hasArg(args, "location")
    THEN IF dataArtists = <<>> THEN [kind |-> "list", items |-> <<>>]
         ELSE [kind |-> "throw",
               message |-> "Cannot read properties of undefined (reading 'toLowerCase')"]
    ELSE LET keep(a) == includes(toLowerCase(a.location), toLowerCase(args.location))
         IN  [kind |-> "list",
              items |-> selectArtists(dataArtists,
                                      [i \in 1..Len(dataArtists) |-> keep(dataArtists[i])])]

\* resolvers[operation](variables)
resolve(operation, args) ==
    CASE operation = "artists" -> resolveArtists(args)
      [] operation = "artist" -> resolveArtist(args)
      [] operation = "artistsByCategory" -> resolveArtistsByCategory(args)
      [] operation = "artistsByLocation" -> resolveArtistsByLocation(args)

\* the property names of an Artist object, as the characters of the key
propertyName ==
    [id |-> <<"i","d">>, name |-> <<"n","a","m","e">>,
     categories |-> <<"c","a","t","e","g","o","r","i","e","s">>,
     location |-> <<"l","o","c","a","t","i","o","n">>,
     priceRange |-> <<"p","r","i","c","e","R","a","n","g","e">>,
     bio |-> <<"b","i","o">>,
     imageUrl |-> <<"i","m","a","g","e","U","r","l">>,
     languages |-> <<"l","a","n","g","u","a","g","e","s">>]

\* an Artist record as the JavaScript object the projection reads: its own
\* property names, as characters, with their values
objectOf(artist) ==
    [f \in { propertyName[k] : k \in DOMAIN artist } |->
        artist[CHOOSE k \in DOMAIN artist : propertyName[k] = f]]

\* obj[field], undefined for a name the object does not have
getProperty(obj, field) == IF field \in DOMAIN obj THEN obj[field] ELSE Undefined

\* project with the test `field in artist` negated
projectAbsent(fields, obj) ==
    [f \in { fields[i] : i \in 1..Len(fields) } \ DOMAIN obj |-> getProperty(obj, f)]

\* project without the field list: the whole object is returned
projectAll(fields, obj) == obj

\* fields.forEach(field => { if (field in artist) filtered[field] = artist[field] })
project(fields, obj) ==
    [f \in { fields[i] : i \in 1..Len(fields) } \cap DOMAIN obj |-> getProperty(obj, f)]

\* respond with a catch clause that drops the message: data null, no errors
respondSwallow(fields, data) ==
    CASE data.kind = "list" ->
           [data |-> [kind |-> "list",
                      items |-> [i \in 1..Len(data.items) |->
                                    project(fields, objectOf(data.items[i]))]]]
      [] data.kind = "object" ->
           [data |-> [kind |-> "object", value |-> project(fields, objectOf(data.value))]]
      [] data.kind = "undefined" ->
           [data |-> [kind |-> "null"]]
      [] data.kind = "throw" ->
           [data |-> [kind |-> "null"]]

\* the branches on `data` after the resolver has run, and the catch clause
respond(fields, data) ==
    CASE data.kind = "list" ->
           [data |-> [kind |-> "list",
                      items |-> [i \in 1..Len(data.items) |->
                                    project(fields, objectOf(data.items[i]))]]]
      [] data.kind = "object" ->
           [data |-> [kind |-> "object", value |-> project(fields, objectOf(data.value))]]
      [] data.kind = "undefined" ->
           [data |-> [kind |-> "null"]]
      [] data.kind = "throw" ->
           [data |-> [kind |-> "null"], errors |-> <<[message |-> data.message]>>]

(***************************************************************************)
(* Documents and argument mappings handed to graphqlRequest.               *)
(***************************************************************************)
\* queries.getAllArtists, character for character
getAllArtists ==
    <<
       "\n"," "," "," "," ","q","u","e","r","y"," ","G","e","t",
       "A","l","l","A","r","t","i","s","t","s"," ","{","\n"," ",
       " "," "," "," "," ","a","r","t","i","s","t","s"," ","{",
       "\n"," "," "," "," "," "," "," "," ","i","d","\n"," "," ",
       " "," "," "," "," "," ","n","a","m","e","\n"," "," "," ",
       " "," "," "," "," ","c","a","t","e","g","o","r","i","e",
       "s","\n"," "," "," "," "," "," "," "," ","l","o","c","a",
       "t","i","o","n","\n"," "," "," "," "," "," "," "," ","p",
       "r","i","c","e","R","a","n","g","e"," ","{","\n"," "," ",
       " "," "," "," "," "," "," "," ","m","i","n","\n"," "," ",
       " "," "," "," "," "," "," "," ","m","a","x","\n"," "," ",
       " "," "," "," "," "," ","}","\n"," "," "," "," "," "," ",
       " "," ","b","i","o","\n"," "," "," "," "," "," "," "," ",
       "i","m","a","g","e","U","r","l","\n"," "," "," "," "," ",
       " "," "," ","l","a","n","g","u","a","g","e","s","\n"," ",
       " "," "," "," "," ","}","\n"," "," "," "," ","}","\n"," ",
       " "
    >>

\* queries.getArtistById, character for character
getArtistById ==
    <<
       "\n"," "," "," "," ","q","u","e","r","y"," ","G","e","t",
       "A","r","t","i","s","t","B","y","I","d","(","$","i","d",
       ":"," ","S","t","r","i","n","g","!",")"," ","{","\n"," ",
       " "," "," "," "," ","a","r","t","i","s","t","(","i","d",
       ":"," ","$","i","d",")"," ","{","\n"," "," "," "," "," ",
       " "," "," ","i","d","\n"," "," "," "," "," "," "," "," ",
       "n","a","m","e","\n"," "," "," "," "," "," "," "," ","c",
       "a","t","e","g","o","r","i","e","s","\n"," "," "," "," ",
       " "," "," "," ","l","o","c","a","t","i","o","n","\n"," ",
       " "," "," "," "," "," "," ","p","r","i","c","e","R","a",
       "n","g","e"," ","{","\n"," "," "," "," "," "," "," "," ",
       " "," ","m","i","n","\n"," "," "," "," "," "," "," "," ",
       " "," ","m","a","x","\n"," "," "," "," "," "," "," "," ",
       "}","\n"," "," "," "," "," "," "," "," ","b","i","o","\n",
       " "," "," "," "," "," "," "," ","i","m","a","g","e","U",
       "r","l","\n"," "," "," "," "," "," "," "," ","l","a","n",
       "g","u","a","g","e","s","\n"," "," "," "," "," "," ","}",
       "\n"," "," "," "," ","}","\n"," "," "
    >>

\* queries.getArtistsByCategory, character for character
getArtistsByCategory ==
    <<
       "\n"," "," "," "," ","q","u","e","r","y"," ","G","e","t",
       "A","r","t","i","s","t","s","B","y","C","a","t","e","g",
       "o","r","y","(","$","c","a","t","e","g","o","r","y",":",
       " ","S","t","r","i","n","g","!",")"," ","{","\n"," "," ",
       " "," "," "," ","a","r","t","i","s","t","s","B","y","C",
       "a","t","e","g","o","r","y","(","c","a","t","e","g","o",
       "r","y",":"," ","$","c","a","t","e","g","o","r","y",")",
       " ","{","\n"," "," "," "," "," "," "," "," ","i","d","\n",
       " "," "," "," "," "," "," "," ","n","a","m","e","\n"," ",
       " "," "," "," "," "," "," ","c","a","t","e","g","o","r",
       "i","e","s","\n"," "," "," "," "," "," "," "," ","l","o",
       "c","a","t","i","o","n","\n"," "," "," "," "," "," "," ",
       " ","p","r","i","c","e","R","a","n","g","e"," ","{","\n",
       " "," "," "," "," "," "," "," "," "," ","m","i","n","\n",
       " "," "," "," "," "," "," "," "," "," ","m","a","x","\n",
       " "," "," "," "," "," "," "," ","}","\n"," "," "," "," ",
       " "," "," "," ","i","m","a","g","e","U","r","l","\n"," ",
       " "," "," "," "," ","}","\n"," "," "," "," ","}","\n"," ",
       " "
    >>

\* queries.getArtistsByLocation, character for character
getArtistsByLocation ==
    <<
       "\n"," "," "," "," ","q","u","e","r","y"," ","G","e","t",
       "A","r","t","i","s","t","s","B","y","L","o","c","a","t",
       "i","o","n","(","$","l","o","c","a","t","i","o","n",":",
       " ","S","t","r","i","n","g","!",")"," ","{","\n"," "," ",
       " "," "," "," ","a","r","t","i","s","t","s","B","y","L",
       "o","c","a","t","i","o","n","(","l","o","c","a","t","i",
       "o","n",":"," ","$","l","o","c","a","t","i","o","n",")",
       " ","{","\n"," "," "," "," "," "," "," "," ","i","d","\n",
       " "," "," "," "," "," "," "," ","n","a","m","e","\n"," ",
       " "," "," "," "," "," "," ","c","a","t","e","g","o","r",
       "i","e","s","\n"," "," "," "," "," "," "," "," ","l","o",
       "c","a","t","i","o","n","\n"," "," "," "," "," "," "," ",
       " ","p","r","i","c","e","R","a","n","g","e"," ","{","\n",
       " "," "," "," "," "," "," "," "," "," ","m","i","n","\n",
       " "," "," "," "," "," "," "," "," "," ","m","a","x","\n",
       " "," "," "," "," "," "," "," ","}","\n"," "," "," "," ",
       " "," "," "," ","i","m","a","g","e","U","r","l","\n"," ",
       " "," "," "," "," ","}","\n"," "," "," "," ","}","\n"," ",
       " "
    >>

\* a flat selection of two fields
docIdName ==
    <<
       "{","\n"," "," ","i","d","\n"," "," ","n","a","m","e","\n",
       "}"
    >>

\* a selection with a comment line, an unknown field and a nested opening
docComment ==
    <<
       "q","u","e","r","y"," ","{","\n"," "," ","#"," ","n","o",
       "t","e","\n"," "," ","i","d","\n"," "," ","n","i","c","k",
       "n","a","m","e","\n"," "," ","b","i","o"," ","{"," ","x",
       "\n","}"
    >>

\* a flat selection naming the location operation
docByLocation ==
    <<
       "{"," ","a","r","t","i","s","t","s","B","y","L","o","c",
       "a","t","i","o","n","\n"," "," ","i","d","\n"," "," ","l",
       "o","c","a","t","i","o","n","\n","}"
    >>

\* braces around white space only
docBlank ==
    <<
       "{"," ","\n"," ","}"
    >>

\* pieces the other documents are put together from
DocFragments ==
    { <<"{">>, <<"}">>, <<"\n">>, <<"#">>, <<" ","i","d">>,
      <<"a","r","t","i","s","t","(">>,
      <<"a","r","t","i","s","t","s","B","y","C","a","t","e","g","o","r","y">>,
      <<"a","r","t","i","s","t","s","B","y","L","o","c","a","t","i","o","n">> }

RECURSIVE concat(_)
concat(parts) == IF parts = <<>> THEN <<>> ELSE Head(parts) \o concat(Tail(parts))

\* the documents of at most n pieces
FragmentDocs(n) == { concat(parts) : parts \in UNION { [1..k -> DocFragments] : k \in 0..n } }

Documents ==
    {getAllArtists, getArtistById, getArtistsByCategory, getArtistsByLocation,
     docIdName, docComment, docByLocation, docBlank}
      \cup FragmentDocs(MaxDocParts)

\* query.variables; the empty mapping is the default `variables = {}`
VariableChoices ==
    { [k \in {} |-> Undefined],
      [id |-> <<"1">>, category |-> "dj", location |-> <<"n","e","w">>],
      [id |-> <<"3">>, category |-> "singer", location |-> <<"B","O","S">>],
      [id |-> <<"9">>, category |-> "magician", location |-> <<>>] }

\* the fixed record sets: arrays of stored (not session) records, none repeated
DataChoices ==
    { arr \in ArtistArrays(MaxArtists) :
        /\ \A i \in 1..Len(arr) : ~startsWith(arr[i].id, TempPrefix)
        /\ \A i \in 1..Len(arr) : \A j \in 1..Len(arr) : i # j => arr[i].id # arr[j].id }

\* graphqlRequest up to its await: a caller passes { query, variables } and
\* the delay starts
graphqlRequest ==
    /\ gqlPc = "idle"
    /\ \E query \in Documents : \E variables \in VariableChoices :
          /\ gqlQuery' = query
          /\ gqlVariables' = variables
    /\ gqlPc' = "delay"
    /\ UNCHANGED <<dataArtists, gqlFields, gqlOperation, gqlData, gqlResponse>>
    /\ UNCHANGED filterVars
    /\ UNCHANGED appVars

\* graphqlRequest after the delay: parse, classify, resolve, project, respond
graphqlResume ==
    /\ gqlPc = "delay"
    /\ gqlPc' = "done"
    /\ gqlFields' = parseQuery(gqlQuery)
    /\ gqlOperation' = classify(gqlQuery)
    /\ gqlData' = resolve(gqlOperation', gqlVariables)
    /\ gqlResponse' = respond(gqlFields', gqlData')
    /\ UNCHANGED <<dataArtists, gqlQuery, gqlVariables>>
    /\ UNCHANGED filterVars
    /\ UNCHANGED appVars

(***************************************************************************)
(* Shared state container: contexts/AppContext.                            *)
(***************************************************************************)
\* const initialState
initialState ==
    [artists |-> <<>>,
     isLoading |-> FALSE,
     filters |-> [category |-> "all", location |-> <<>>, price |-> <<0, 5000>>],
     theme |-> "system",
     notifications |-> <<>>]

\* the `state` of useReducer(appReducer, initialState), as one AppState object
state ==
    [artists |-> artists,
     isLoading |-> stateIsLoading,
     filters |-> stateFilters,
     theme |-> stateTheme,
     notifications |-> stateNotifications]

DigitChars == <<"0", "1", "2", "3", "4", "5", "6", "7", "8", "9">>

\* Number.prototype.toString of a non-negative integer: its decimal digits
RECURSIVE numberToString(_)
numberToString(n) ==
    IF n < 10 THEN <<DigitChars[n + 1]>>
    ELSE numberToString(n \div 10) \o <<DigitChars[(n % 10) + 1]>>

\* notifications.filter(n => n.id !== id)
RECURSIVE withoutNotification(_, _)
withoutNotification(list, id) ==
    IF list = <<>> THEN <<>>
    ELSE IF list[1].id # id
         THEN <<list[1]>> \o withoutNotification(Tail(list), id)
         ELSE withoutNotification(Tail(list), id)

\* appReducer whose SET_ARTISTS starts from initialState instead of state
appReducerResetting(st, action) ==
    CASE action.type = "SET_ARTISTS" ->
           [initialState EXCEPT !.artists = action.payload]
      [] action.type = "ADD_TEMPORARY_ARTIST" ->
           [st EXCEPT !.artists = Append(st.artists, action.payload)]
      [] action.type = "SET_LOADING" ->
           [st EXCEPT !.isLoading = action.payload]
      [] action.type = "SET_FILTERS" ->
           [st EXCEPT !.filters = mergeFilters(st.filters, action.payload)]
      [] action.type = "SET_THEME" ->
           [st EXCEPT !.theme = action.payload]
      [] action.type = "ADD_NOTIFICATION" ->
           [st EXCEPT !.notifications =
               Append(st.notifications,
                      [id |-> numberToString(now),
                       type |-> action.payload.type,
                       message |-> action.payload.message])]
      [] action.type = "REMOVE_NOTIFICATION" ->
           [st EXCEPT !.notifications = withoutNotification(st.notifications, action.payload)]
      [] action.type = "CLEAR_FILTERS" ->
           [st EXCEPT !.filters = initialState.filters]
      [] OTHER -> st

\* function appReducer(state, action); Date.now() is the clock at the call
appReducer(st, action) ==
    CASE action.type = "SET_ARTISTS" ->
           [st EXCEPT !.artists = action.payload]
      [] action.type = "ADD_TEMPORARY_ARTIST" ->
           [st EXCEPT !.artists = Append(st.artists, action.payload)]
      [] action.type = "SET_LOADING" ->
           [st EXCEPT !.isLoading = action.payload]
      [] action.type = "SET_FILTERS" ->
           [st EXCEPT !.filters = mergeFilters(st.filters, action.payload)]
      [] action.type = "SET_THEME" ->
           [st EXCEPT !.theme = action.payload]
      [] action.type = "ADD_NOTIFICATION" ->
           [st EXCEPT !.notifications =
               Append(st.notifications,
                      [id |-> numberToString(now),
                       type |-> action.payload.type,
                       message |-> action.payload.message])]
      [] action.type = "REMOVE_NOTIFICATION" ->
           [st EXCEPT !.notifications = withoutNotification(st.notifications, action.payload)]
      [] action.type = "CLEAR_FILTERS" ->
           [st EXCEPT !.filters = initialState.filters]
      [] OTHER -> st

\* the container holds `next` after the reducer has run
setState(next) ==
    /\ artists' = next.artists
    /\ stateIsLoading' = next.isLoading
    /\ stateFilters' = next.filters
    /\ stateTheme' = next.theme
    /\ stateNotifications' = next.notifications

\* dispatch(action): the reducer runs and the container holds its result
dispatch(action) == setState(appReducer(state, action))

\* the clock advances
Tick ==
    /\ now < MaxTime
    /\ now' = now + 1

StateIdle ==
    /\ stateIsLoading = initialState.isLoading
    /\ stateFilters = initialState.filters
    /\ stateTheme = initialState.theme
    /\ stateNotifications = initialState.notifications

PageIdle ==
    /\ route = "home"
    /\ initialCategory = "all"
    /\ isLoading = TRUE
    /\ hasLoadedInitialData = FALSE
    /\ fetches = <<>>

NoWrite == [holder |-> "none"]

AppIdle ==
    /\ StateIdle
    /\ PageIdle
    /\ now = 0
    /\ lastWrite = NoWrite

GqlIdle ==
    /\ dataArtists = <<>>
    /\ gqlPc = "idle"
    /\ gqlQuery = <<>>
    /\ gqlVariables = <<>>
    /\ gqlFields = <<>>
    /\ gqlOperation = "artists"
    /\ gqlData = [kind |-> "none"]
    /\ gqlResponse = [kind |-> "none"]

InitFilter ==
    /\ artists \in ArtistArrays(MaxArtists)
    /\ filters = DefaultFilters
    /\ deferredFilters = DefaultFilters
    /\ isPending = FALSE
    /\ nextFilters = DefaultFilters
    /\ GqlIdle
    /\ AppIdle

NextFilter ==
    \/ \E newFilters \in FilterPayloads : updateFilters(newFilters) /\ UNCHANGED lastWrite
    \/ clearFilters /\ UNCHANGED lastWrite
    \/ TransitionCommit /\ UNCHANGED lastWrite

SpecFilter == InitFilter /\ [][NextFilter]_vars

\* React's scheduler runs a pending transition render to its commit
SpecFilterFair == SpecFilter /\ WF_vars(TransitionCommit /\ UNCHANGED lastWrite)

FilterIdle ==
    /\ artists = <<>>
    /\ filters = DefaultFilters
    /\ deferredFilters = DefaultFilters
    /\ isPending = FALSE
    /\ nextFilters = DefaultFilters

InitResolver ==
    /\ dataArtists \in DataChoices
    /\ gqlPc = "idle"
    /\ gqlQuery = <<>>
    /\ gqlVariables = <<>>
    /\ gqlFields = <<>>
    /\ gqlOperation = "artists"
    /\ gqlData = [kind |-> "none"]
    /\ gqlResponse = [kind |-> "none"]
    /\ FilterIdle
    /\ AppIdle

NextResolver ==
    \/ graphqlRequest /\ UNCHANGED lastWrite
    \/ graphqlResume /\ UNCHANGED lastWrite

SpecResolver == InitResolver /\ [][NextResolver]_vars

(***************************************************************************)
(* The artists listing page (ArtistsPageContent) and the onboarding form   *)
(* (ArtistForm), over the container.                                       *)
(***************************************************************************)
\* export const categories: the values of the fixed vocabulary
categories == {"singer", "dancer", "dj", "speaker", "magician", "comedian"}

\* the categories a listing URL carries: any string the visitor types, here
\* one of the vocabulary and one outside it; 'all' is also what a URL without
\* a category gives (searchParams.get('category') || 'all')
UrlCategories == {"all", "singer", "juggler"}

\* what the user sets through the filter controls of the page
PageFilterPayloads == { [f \in {"price"} |-> <<0, 1000>>] }

\* validated values of the onboarding form (no profile image chosen)
FormValues ==
    { [name |-> "Eve", bio |-> "bio5", categories |-> <<"singer">>,
       languages |-> <<"english">>, feeRange |-> "500-1000", location |-> NewYork] }

\* parseFeeRange with the open-ended range starting above 5000
parseFeeRangeAbove(feeRange) ==
    CASE feeRange = "0-500" -> [min |-> 0, max |-> 500]
      [] feeRange = "500-1000" -> [min |-> 500, max |-> 1000]
      [] feeRange = "1000-2500" -> [min |-> 1000, max |-> 2500]
      [] feeRange = "2500-5000" -> [min |-> 2500, max |-> 5000]
      [] feeRange = "5000+" -> [min |-> 5001, max |-> 10000]
      [] OTHER -> [min |-> 0, max |-> 1000]

\* const parseFeeRange
parseFeeRange(feeRange) ==
    CASE feeRange = "0-500" -> [min |-> 0, max |-> 500]
      [] feeRange = "500-1000" -> [min |-> 500, max |-> 1000]
      [] feeRange = "1000-2500" -> [min |-> 1000, max |-> 2500]
      [] feeRange = "2500-5000" -> [min |-> 2500, max |-> 5000]
      [] feeRange = "5000+" -> [min |-> 5000, max |-> 10000]
      [] OTHER -> [min |-> 0, max |-> 1000]

\* transformFormDataToArtist: the id is `temp-${Date.now()}`
transformFormDataToArtist(formData) ==
    [id |-> TempPrefix \o numberToString(now),
     name |-> formData.name,
     categories |-> formData.categories,
     location |-> formData.location,
     priceRange |-> parseFeeRange(formData.feeRange),
     bio |-> formData.bio,
     imageUrl |-> "https://placehold.co/400x400.png",
     languages |-> formData.languages]

\* state.artists.filter(artist => artist.id.startsWith('temp-'))
temporaryArtists(arr) ==
    selectArtists(arr, [i \in 1..Len(arr) |-> startsWith(arr[i].id, TempPrefix)])

\* a response object read back as an Artist record: the same properties
\* under the record's field names
recordOf(obj) ==
    [k \in { k \in DOMAIN propertyName : propertyName[k] \in DOMAIN obj } |->
        obj[propertyName[k]]]

\* the field list and the operation graphqlRequest computes for queries.getAllArtists
getAllArtistsFields == parseQuery(getAllArtists)

getAllArtistsOperation == classify(getAllArtists)

\* what `await query({ query: queries.getAllArtists })` resolves with
graphqlResponse ==
    respond(getAllArtistsFields, resolve(getAllArtistsOperation, <<>>))

\* fetchArtists racing the two paths: the REST request is issued at once
fetchArtistsRaced(closure) ==
    [query |-> "pending", rest |-> "pending", artists |-> closure]

\* fetchArtists up to its first await: the call closes over the state.artists
\* of the render that ran the effect, and the resolver request is pending
fetchArtists(closure) ==
    [query |-> "pending", rest |-> "none", artists |-> closure]

\* a finally clause that leaves the two flags as they are
finallyClauseSkipped(call) ==
    UNCHANGED <<isLoading, hasLoadedInitialData>>

\* the finally clause: setIsLoading(false); setHasLoadedInitialData(true) act
\* on the page instance that started the call, if it is still mounted
finallyClause(call) ==
    IF route = "artists" /\ call = Len(fetches)
    THEN /\ isLoading' = FALSE
         /\ hasLoadedInitialData' = TRUE
    ELSE UNCHANGED <<isLoading, hasLoadedInitialData>>

\* the router shows the listing page: ArtistsPageContent mounts with its
\* initial state, and its two effects run: fetchArtists() starts, and the
\* category of the URL, if there is one, goes to updateFilters
mountArtistsPage(category) ==
    /\ route # "artists"
    /\ Len(fetches) < MaxMounts
    /\ route' = "artists"
    /\ initialCategory' = category
    /\ isLoading' = TRUE
    /\ hasLoadedInitialData' = FALSE
    /\ fetches' = Append(fetches, fetchArtists(artists))
    /\ filters' = DefaultFilters
    /\ deferredFilters' = DefaultFilters
    /\ nextFilters' = IF category # "all"
                      THEN mergeFilters(DefaultFilters, [f \in {"category"} |-> category])
                      ELSE DefaultFilters
    /\ isPending' = (category # "all")
    /\ UNCHANGED <<artists, stateVars, now>>
    /\ UNCHANGED gqlVars

\* the router leaves the listing page: the state of the page and of its
\* filter hook is dropped; a fetchArtists call in flight goes on
unmountArtistsPage(to) ==
    /\ route = "artists"
    /\ to # "artists"
    /\ route' = to
    /\ initialCategory' = "all"
    /\ isLoading' = TRUE
    /\ hasLoadedInitialData' = FALSE
    /\ filters' = DefaultFilters
    /\ deferredFilters' = DefaultFilters
    /\ nextFilters' = DefaultFilters
    /\ isPending' = FALSE
    /\ UNCHANGED <<artists, stateVars, now, fetches>>
    /\ UNCHANGED gqlVars

\* the router goes between the home page and the onboarding page
navigate(to) ==
    /\ route # "artists"
    /\ to \in {"home", "onboarding"}
    /\ to # route
    /\ route' = to
    /\ UNCHANGED <<initialCategory, isLoading, hasLoadedInitialData, fetches>>
    /\ UNCHANGED <<stateVars, now>>
    /\ UNCHANGED filterVars
    /\ UNCHANGED gqlVars

\* fetchArtists resumes after `await query(...)` with the response of
\* graphqlRequest: errors (or data that cannot be spread) throw into the
\* catch clause, which issues the REST request; otherwise SET_ARTISTS
queryResolved(call) ==
    /\ call \in 1..Len(fetches)
    /\ fetches[call].query = "pending"
    /\ IF "errors" \in DOMAIN graphqlResponse \/ graphqlResponse.data.kind # "list"
       THEN /\ fetches' = [fetches EXCEPT ![call].query = "failed", ![call].rest = "pending"]
            /\ UNCHANGED <<artists, stateVars, isLoading, hasLoadedInitialData>>
       ELSE /\ fetches' = [fetches EXCEPT ![call].query = "ok"]
            /\ dispatch([type |-> "SET_ARTISTS",
                         payload |-> [i \in 1..Len(graphqlResponse.data.items) |->
                                         recordOf(graphqlResponse.data.items[i])]
                                     \o temporaryArtists(fetches[call].artists)])
            /\ finallyClause(call)
    /\ UNCHANGED <<now, route, initialCategory>>
    /\ UNCHANGED <<filters, deferredFilters, isPending, nextFilters>>
    /\ UNCHANGED gqlVars

\* `await query(...)` fails: the call rejects, or its response carries an
\* errors list; the catch clause issues fetch('/api/artists')
queryFailed(call) ==
    /\ call \in 1..Len(fetches)
    /\ fetches[call].query = "pending"
    /\ fetches' = [fetches EXCEPT ![call].query = "failed", ![call].rest = "pending"]
    /\ UNCHANGED <<artists, stateVars, now, route, initialCategory, isLoading,
                   hasLoadedInitialData>>
    /\ UNCHANGED <<filters, deferredFilters, isPending, nextFilters>>
    /\ UNCHANGED gqlVars

\* fetch('/api/artists') and res.json() resolve with the route's answer,
\* NextResponse.json(artists): SET_ARTISTS
restResolved(call) ==
    /\ call \in 1..Len(fetches)
    /\ fetches[call].rest = "pending"
    /\ fetches' = [fetches EXCEPT ![call].rest = "ok"]
    /\ dispatch([type |-> "SET_ARTISTS",
                 payload |-> dataArtists \o temporaryArtists(fetches[call].artists)])
    /\ finallyClause(call)
    /\ UNCHANGED <<now, route, initialCategory>>
    /\ UNCHANGED <<filters, deferredFilters, isPending, nextFilters>>
    /\ UNCHANGED gqlVars

\* restFailed with a catch clause that also clears the record set
restFailedClearing(call) ==
    /\ call \in 1..Len(fetches)
    /\ fetches[call].rest = "pending"
    /\ fetches' = [fetches EXCEPT ![call].rest = "failed"]
    /\ setState(appReducer(
            appReducer(state, [type |-> "SET_ARTISTS", payload |-> <<>>]),
            [type |-> "ADD_NOTIFICATION",
             payload |-> [type |-> "error",
                          message |-> <<"Failed to load artists. Please try again later.">>]]))
    /\ finallyClause(call)
    /\ UNCHANGED <<now, route, initialCategory>>
    /\ UNCHANGED <<filters, deferredFilters, isPending, nextFilters>>
    /\ UNCHANGED gqlVars

\* fetch('/api/artists') or res.json() rejects: ADD_NOTIFICATION
restFailed(call) ==
    /\ call \in 1..Len(fetches)
    /\ fetches[call].rest = "pending"
    /\ fetches' = [fetches EXCEPT ![call].rest = "failed"]
    /\ dispatch([type |-> "ADD_NOTIFICATION",
                 payload |-> [type |-> "error",
                              message |-> <<"Failed to load artists. Please try again later.">>]])
    /\ finallyClause(call)
    /\ UNCHANGED <<now, route, initialCategory>>
    /\ UNCHANGED <<filters, deferredFilters, isPending, nextFilters>>
    /\ UNCHANGED gqlVars

\* ArtistForm.onSubmit: addTemporaryArtist(transformFormDataToArtist(values)),
\* then addNotification({type: 'success', ...}), in one event handler
\* onSubmit installing the new record as the whole record set
onSubmitReplacing(values) ==
    /\ route = "onboarding"
    /\ Len(stateNotifications) < MaxNotifications
    /\ setState(appReducer(
            appReducer(state, [type |-> "SET_ARTISTS",
                               payload |-> <<transformFormDataToArtist(values)>>]),
            [type |-> "ADD_NOTIFICATION",
             payload |-> [type |-> "success",
                          message |-> <<"Artist profile for ", values.name,
                                        " has been submitted successfully and is now visible in the artists listing.">>]]))
    /\ UNCHANGED <<now, route, initialCategory, isLoading, hasLoadedInitialData, fetches>>
    /\ UNCHANGED <<filters, deferredFilters, isPending, nextFilters>>
    /\ UNCHANGED gqlVars

onSubmit(values) ==
    /\ route = "onboarding"
    /\ Len(stateNotifications) < MaxNotifications
    /\ setState(appReducer(
            appReducer(state, [type |-> "ADD_TEMPORARY_ARTIST",
                               payload |-> transformFormDataToArtist(values)]),
            [type |-> "ADD_NOTIFICATION",
             payload |-> [type |-> "success",
                          message |-> <<"Artist profile for ", values.name,
                                        " has been submitted successfully and is now visible in the artists listing.">>]]))
    /\ UNCHANGED <<now, route, initialCategory, isLoading, hasLoadedInitialData, fetches>>
    /\ UNCHANGED <<filters, deferredFilters, isPending, nextFilters>>
    /\ UNCHANGED gqlVars

\* handleFilterChange(name, value): updateFilters({ [name]: value }); the
\* controls are disabled while the page is loading
handleFilterChange(payload) ==
    /\ route = "artists"
    /\ ~isLoading
    /\ updateFilters(payload)

\* the Clear Filters button: onClick={clearFilters}
clearFiltersClick ==
    /\ route = "artists"
    /\ ~isLoading
    /\ clearFilters

\* the transition render of the mounted page commits
pageTransitionCommit ==
    /\ route = "artists"
    /\ TransitionCommit

\* the clock advances while nothing else happens
clockTick ==
    /\ Tick
    /\ UNCHANGED <<artists, stateVars, route, initialCategory, isLoading,
                   hasLoadedInitialData, fetches>>
    /\ UNCHANGED <<filters, deferredFilters, isPending, nextFilters>>
    /\ UNCHANGED gqlVars

\* the stored record sets of the application: MaxArtists records of lib/data,
\* the record with id '1' first
StoredChoices ==
    { arr \in DataChoices :
        /\ Len(arr) = MaxArtists
        /\ arr[1].id = <<"1">> }

Init ==
    /\ dataArtists \in StoredChoices
    /\ gqlPc = "idle"
    /\ gqlQuery = <<>>
    /\ gqlVariables = <<>>
    /\ gqlFields = <<>>
    /\ gqlOperation = "artists"
    /\ gqlData = [kind |-> "none"]
    /\ gqlResponse = [kind |-> "none"]
    /\ FilterIdle
    /\ AppIdle

Next ==
    \/ \E category \in UrlCategories : mountArtistsPage(category) /\ UNCHANGED lastWrite
    \/ \E to \in {"home", "onboarding"} : unmountArtistsPage(to) /\ UNCHANGED lastWrite
    \/ \E to \in {"home", "onboarding"} : navigate(to) /\ UNCHANGED lastWrite
    \/ \E call \in 1..MaxMounts : queryResolved(call) /\ UNCHANGED lastWrite
    \/ \E call \in 1..MaxMounts : queryFailed(call) /\ UNCHANGED lastWrite
    \/ \E call \in 1..MaxMounts : restResolved(call) /\ UNCHANGED lastWrite
    \/ \E call \in 1..MaxMounts : restFailed(call) /\ UNCHANGED lastWrite
    \/ \E values \in FormValues : onSubmit(values) /\ UNCHANGED lastWrite
    \/ \E payload \in PageFilterPayloads : handleFilterChange(payload) /\ UNCHANGED lastWrite
    \/ clearFiltersClick /\ UNCHANGED lastWrite
    \/ pageTransitionCommit /\ UNCHANGED lastWrite
    \/ clockTick /\ UNCHANGED lastWrite

Spec == Init /\ [][Next]_vars

\* a pending request of a fetchArtists call settles, one way or the other:
\* the steps of queryResolved, queryFailed, restResolved and restFailed, told
\* by what they do to the call
settle ==
    \E call \in 1..Len(fetches) :
        \/ /\ fetches[call].query = "pending"
           /\ \/ fetches' = [fetches EXCEPT ![call].query = "ok"]
              \/ fetches' = [fetches EXCEPT ![call].query = "failed", ![call].rest = "pending"]
        \/ /\ fetches[call].rest = "pending"
           /\ \/ fetches' = [fetches EXCEPT ![call].rest = "ok"]
              \/ fetches' = [fetches EXCEPT ![call].rest = "failed"]

\* the 300 ms timer of graphqlRequest fires and fetch() settles: no request
\* of a load stays pending for ever
SpecFair == Spec /\ WF_fetches(settle)

\* ---------------------------------------------------------------------
\* The onboarding form over every fee range
\* ---------------------------------------------------------------------

\* the fee ranges of the form's select, and a string that is none of them
FeeRanges == {"0-500", "500-1000", "1000-2500", "2500-5000", "5000+", "negotiable"}

\* validated submissions, one for each fee range
FeeRangeForms ==
    { [name |-> "Eve", bio |-> "bio5", categories |-> <<"singer">>,
       languages |-> <<"english">>, feeRange |-> feeRange, location |-> NewYork] :
        feeRange \in FeeRanges }

NextOnboarding ==
    \/ \E to \in {"home", "onboarding"} : navigate(to) /\ UNCHANGED lastWrite
    \/ \E values \in FeeRangeForms : onSubmit(values) /\ UNCHANGED lastWrite
    \/ clockTick /\ UNCHANGED lastWrite

SpecOnboarding == Init /\ [][NextOnboarding]_vars

(***************************************************************************)
(* The container alone, under every action a component can dispatch.       *)
(***************************************************************************)
\* Partial<AppState['filters']> payloads: no field, one field, two fields
SetFiltersPayloads ==
    { [f \in {} |-> "all"],
      [f \in {"location"} |-> <<"N","E","w">>],
      [category |-> "dj", price |-> <<0, 1000>>] }

\* Artist[] payloads of SET_ARTISTS: no record, one stored record
SetArtistsPayloads ==
    { arr \in ArtistArrays(1) : \A i \in 1..Len(arr) : arr[i].id = <<"1">> }

\* the AppAction values of the model
AppActions ==
    { [type |-> "SET_ARTISTS", payload |-> p] : p \in SetArtistsPayloads }
      \cup { [type |-> "ADD_TEMPORARY_ARTIST", payload |-> transformFormDataToArtist(v)] :
                v \in FormValues }
      \cup { [type |-> "SET_LOADING", payload |-> b] : b \in BOOLEAN }
      \cup { [type |-> "SET_FILTERS", payload |-> p] : p \in SetFiltersPayloads }
      \cup { [type |-> "SET_THEME", payload |-> t] : t \in {"light", "dark", "system"} }
      \cup { [type |-> "ADD_NOTIFICATION", payload |-> [type |-> t, message |-> <<t>>]] :
                t \in {"success", "error"} }
      \cup { [type |-> "REMOVE_NOTIFICATION", payload |-> numberToString(t)] :
                t \in 0..(MaxTime + 1) }
      \cup { [type |-> "CLEAR_FILTERS"] }

\* a component dispatches an action of the given type; the record set and
\* the notification list grow within the bounds of the model
dispatchOf(type) ==
    /\ type = "ADD_TEMPORARY_ARTIST" => Len(artists) < MaxArtists
    /\ type = "ADD_NOTIFICATION" => Len(stateNotifications) < MaxNotifications
    /\ \E action \in AppActions :
          /\ action.type = type
          /\ dispatch(action)
    /\ UNCHANGED <<now, route, initialCategory, isLoading, hasLoadedInitialData,
                   fetches, lastWrite>>
    /\ UNCHANGED <<filters, deferredFilters, isPending, nextFilters>>
    /\ UNCHANGED gqlVars

InitReducer ==
    /\ artists = initialState.artists
    /\ filters = DefaultFilters
    /\ deferredFilters = DefaultFilters
    /\ isPending = FALSE
    /\ nextFilters = DefaultFilters
    /\ GqlIdle
    /\ AppIdle

NextReducer ==
    \/ dispatchOf("SET_ARTISTS")
    \/ dispatchOf("ADD_TEMPORARY_ARTIST")
    \/ dispatchOf("SET_LOADING")
    \/ dispatchOf("SET_FILTERS")
    \/ dispatchOf("SET_THEME")
    \/ dispatchOf("ADD_NOTIFICATION")
    \/ dispatchOf("REMOVE_NOTIFICATION")
    \/ dispatchOf("CLEAR_FILTERS")
    \/ clockTick /\ UNCHANGED lastWrite

SpecReducer == InitReducer /\ [][NextReducer]_vars

(***************************************************************************)
(* The two holders of a filter configuration, the container and the filter *)
(* hook of a mounted listing page, under the writes of their interfaces.   *)
(***************************************************************************)
\* the record of a write: who holds the configuration, which write, with what
\* payload, and the configuration the write found
writeRecord(holder, kind, payload, before) ==
    [holder |-> holder, kind |-> kind, payload |-> payload, before |-> before]

NoPayload == [f \in {} |-> "all"]

\* updateFilters(newFilters) on the hook
hookUpdate(newFilters) ==
    /\ updateFilters(newFilters)
    /\ lastWrite' = writeRecord("hook", "update", newFilters, nextFilters)

\* clearFilters() on the hook
hookClear ==
    /\ clearFilters
    /\ lastWrite' = writeRecord("hook", "clear", NoPayload, nextFilters)

\* useFilters().setFilters(filters): SET_FILTERS on the container
setFilters(payload) ==
    /\ dispatch([type |-> "SET_FILTERS", payload |-> payload])
    /\ lastWrite' = writeRecord("container", "update", payload, stateFilters)
    /\ UNCHANGED <<now, route, initialCategory, isLoading, hasLoadedInitialData, fetches>>
    /\ UNCHANGED <<filters, deferredFilters, isPending, nextFilters>>
    /\ UNCHANGED gqlVars

\* useFilters().clearFilters(): CLEAR_FILTERS on the container
containerClearFilters ==
    /\ dispatch([type |-> "CLEAR_FILTERS"])
    /\ lastWrite' = writeRecord("container", "clear", NoPayload, stateFilters)
    /\ UNCHANGED <<now, route, initialCategory, isLoading, hasLoadedInitialData, fetches>>
    /\ UNCHANGED <<filters, deferredFilters, isPending, nextFilters>>
    /\ UNCHANGED gqlVars

\* the listing page has mounted on a URL and its effects have run: the
\* category of the URL, if any, has gone to updateFilters
InitWrites ==
    /\ artists = initialState.artists
    /\ StateIdle
    /\ now = 0
    /\ route = "artists"
    /\ initialCategory \in UrlCategories
    /\ isLoading = TRUE
    /\ hasLoadedInitialData = FALSE
    /\ fetches = <<fetchArtists(initialState.artists)>>
    /\ filters = DefaultFilters
    /\ deferredFilters = DefaultFilters
    /\ nextFilters = IF initialCategory # "all"
                     THEN mergeFilters(DefaultFilters, [f \in {"category"} |-> initialCategory])
                     ELSE DefaultFilters
    /\ isPending = (initialCategory # "all")
    /\ lastWrite = IF initialCategory # "all"
                   THEN writeRecord("hook", "update", [f \in {"category"} |-> initialCategory],
                                    DefaultFilters)
                   ELSE NoWrite
    /\ GqlIdle

NextWrites ==
    \/ \E newFilters \in SetFiltersPayloads : hookUpdate(newFilters)
    \/ hookClear
    \/ TransitionCommit /\ UNCHANGED lastWrite
    \/ \E payload \in SetFiltersPayloads : setFilters(payload)
    \/ containerClearFilters

SpecWrites == InitWrites /\ [][NextWrites]_vars

(***************************************************************************)
(* Filter Engine claims (checked under SpecFilter).                        *)
(***************************************************************************)
\* the three predicates as the contract states them
SpecCategoryOk(artist, config) ==
    config.category = "all" \/ config.category \in {artist.categories[i] : i \in DOMAIN artist.categories}

SpecLocationOk(artist, config) ==
    \/ Len(config.location) = 0
    \/ \E off \in 0..(Len(artist.location) - Len(config.location)) :
          \A j \in 1..Len(config.location) :
              lowerChar(artist.location[off + j]) = lowerChar(config.location[j])

SpecPriceOk(artist, config) ==
    artist.priceRange.min <= config.price[2] /\ artist.priceRange.max >= config.price[1]

SpecPasses(artist, config) ==
    SpecCategoryOk(artist, config) /\ SpecLocationOk(artist, config) /\ SpecPriceOk(artist, config)

\* positions of the record set that pass the contract's predicates
PassingIndexes == { i \in 1..Len(artists) : SpecPasses(artists[i], deferredFilters) }

\* the k-th smallest passing position
KthPassing(k) == CHOOSE i \in PassingIndexes : Cardinality({ j \in PassingIndexes : j < i }) = k - 1

\* C1: filteredArtists is exactly the subsequence of the record set, in the
\* original order, of the records that pass the category, location and price
\* predicates of the configuration.
C1_FilteredIsPassingSubsequence ==
    /\ Len(filteredArtists) = Cardinality(PassingIndexes)
    /\ \A k \in 1..Len(filteredArtists) : filteredArtists[k] = artists[KthPassing(k)]

\* C1 witness: a committed non-default configuration keeps the second of two
\* records and drops the first.
C1_Witness ==
    /\ Len(artists) = 2
    /\ deferredFilters # DefaultFilters
    /\ deferredFilters.location # <<>>
    /\ ~isPending
    /\ filteredArtists = <<artists[2]>>
    /\ artists[1] # artists[2]

\* C2: with the default configuration the Filter Engine returns the record
\* set unchanged and in the same order.
C2_DefaultReturnsInput ==
    deferredFilters = DefaultFilters => filteredArtists = artists

\* price values for quantifying over configuration intervals
PriceGrid == {0, 600, 1000, 5000, 12000}

\* C3: widening the configuration's price interval (category and location
\* unchanged) never removes a record that passed before.
C3_PriceWideningMonotone ==
    \A i \in 1..Len(artists) : \A lo2 \in PriceGrid : \A hi2 \in PriceGrid :
        ( /\ lo2 <= deferredFilters.price[1]
          /\ deferredFilters.price[2] <= hi2
          /\ artistPasses(artists[i], deferredFilters) )
        => artistPasses(artists[i], [deferredFilters EXCEPT !.price = <<lo2, hi2>>])

\* C3 witness: a record passes a committed narrow interval that has a strictly
\* wider interval, and another record of the set does not pass it.
C3_Witness ==
    /\ deferredFilters.price = <<0, 1000>>
    /\ ~isPending
    /\ Len(artists) = 2
    /\ Len(filteredArtists) = 1

Inverted(price) == price[1] > price[2]

\* the interval has a bound outside the default span [0, 5000]
OutOfRange(price) ==
    price[1] < 0 \/ price[1] > 5000 \/ price[2] < 0 \/ price[2] > 5000

\* C4 as stated: an inverted or out-of-range price interval yields an empty
\* filtered result, for every record set.
C4_InvertedOrOutOfRangeIsEmpty ==
    (Inverted(deferredFilters.price) \/ OutOfRange(deferredFilters.price))
        => filteredArtists = <<>>

\* C4 amended: any interval is accepted as-is; the result is empty when the
\* interval lies wholly outside the record set's price bounds, and an inverted
\* interval [lo, hi] still returns exactly the records (passing category and
\* location) with min <= hi and max >= lo.
C4_MalformedIntervalResult ==
    /\ ( deferredFilters.price[2] < priceStats.min
         \/ deferredFilters.price[1] > priceStats.max ) => filteredArtists = <<>>
    /\ Inverted(deferredFilters.price) =>
          \A i \in 1..Len(artists) :
              arrayIncludes(filteredArtists, artists[i])
                <=> ( /\ SpecCategoryOk(artists[i], deferredFilters)
                      /\ SpecLocationOk(artists[i], deferredFilters)
                      /\ artists[i].priceRange.min <= deferredFilters.price[2]
                      /\ artists[i].priceRange.max >= deferredFilters.price[1] )

\* C4 witness: a committed inverted interval with a non-empty result.
C4_Witness ==
    /\ Inverted(deferredFilters.price)
    /\ ~isPending
    /\ filteredArtists # <<>>
    /\ Len(artists) = 2
    /\ Len(filteredArtists) = 1

(***************************************************************************)
(* Query Resolver claims (checked under SpecResolver).                     *)
(***************************************************************************)
\* the objects a completed response carries: the items of a list, or the
\* single record
ResponseObjects ==
    IF gqlPc # "done" THEN <<>>
    ELSE IF gqlResponse.data.kind = "list" THEN gqlResponse.data.items
    ELSE IF gqlResponse.data.kind = "object" THEN <<gqlResponse.data.value>>
    ELSE <<>>

\* the records the resolver returned, in the same positions
ResolvedRecords ==
    IF gqlPc # "done" THEN <<>>
    ELSE IF gqlData.kind = "list" THEN gqlData.items
    ELSE IF gqlData.kind = "object" THEN <<gqlData.value>>
    ELSE <<>>

\* field names, as characters, written at the record level of the documents
FullProjection ==
    { propertyName[k] : k \in {"id", "name", "categories", "location", "priceRange",
                               "bio", "imageUrl", "languages"} }

ListProjection ==
    { propertyName[k] : k \in {"id", "name", "categories", "location", "priceRange",
                               "imageUrl"} }

\* C5: every record returned for a predefined document carries every Artist
\* field that the document names at the record level.
C5_PredefinedProjection ==
    \A i \in 1..Len(ResponseObjects) :
        /\ gqlQuery \in {getAllArtists, getArtistById}
              => FullProjection \subseteq DOMAIN ResponseObjects[i]
        /\ gqlQuery \in {getArtistsByCategory, getArtistsByLocation}
              => ListProjection \subseteq DOMAIN ResponseObjects[i]

\* the position of the closing brace that brings the depth back to zero,
\* scanning s from position j at the given depth; 0 when there is none
RECURSIVE matchingClose(_, _, _)
matchingClose(s, j, depth) ==
    IF j > Len(s) THEN 0
    ELSE IF s[j] = "{" THEN matchingClose(s, j + 1, depth + 1)
    ELSE IF s[j] = "}" THEN IF depth = 1 THEN j ELSE matchingClose(s, j + 1, depth - 1)
    ELSE matchingClose(s, j + 1, depth)

\* opening braces that have a matching closing brace
MatchedOpens(s) == { i \in 1..Len(s) : s[i] = "{" /\ matchingClose(s, i + 1, 1) # 0 }

\* the field list as the contract words it: the text between the first
\* matching brace pair, by lines, without blank and comment lines, each line
\* cut from its first opening brace and trimmed
SpecParse(s) ==
    IF MatchedOpens(s) = {} THEN <<>>
    ELSE LET open == CHOOSE i \in MatchedOpens(s) : \A k \in MatchedOpens(s) : i <= k
             lines == splitLines(SubSeq(s, open + 1, matchingClose(s, open + 1, 1) - 1))
             kept == keepFieldLines([i \in 1..Len(lines) |-> trim(lines[i])])
         IN  [i \in 1..Len(kept) |-> trim(replaceBrace(kept[i]))]

\* C6: parseQuery returns the field names found between the first matching
\* top-level brace pair of the document.
C6_ParseBetweenMatchingBraces ==
    gqlPc = "done" => gqlFields = SpecParse(gqlQuery)

\* pat occurs in s, character by character
HasPattern(s, pat) ==
    \E off \in 0..(Len(s) - Len(pat)) : \A j \in 1..Len(pat) : s[off + j] = pat[j]

PatArtist == <<"a","r","t","i","s","t","(">>

PatByCategory == <<"a","r","t","i","s","t","s","B","y","C","a","t","e","g","o","r","y">>

PatByLocation == <<"a","r","t","i","s","t","s","B","y","L","o","c","a","t","i","o","n">>

\* C7: the operation is chosen by substring presence with the priority
\* 'artist(' > 'artistsByCategory' > 'artistsByLocation' > fetch-all, and each
\* predefined document is classified as its own operation.
C7_ClassificationPriority ==
    gqlPc = "done" =>
        /\ HasPattern(gqlQuery, PatArtist) => gqlOperation = "artist"
        /\ ~HasPattern(gqlQuery, PatArtist) /\ HasPattern(gqlQuery, PatByCategory)
              => gqlOperation = "artistsByCategory"
        /\ ~HasPattern(gqlQuery, PatArtist) /\ ~HasPattern(gqlQuery, PatByCategory)
              /\ HasPattern(gqlQuery, PatByLocation)
              => gqlOperation = "artistsByLocation"
        /\ ~HasPattern(gqlQuery, PatArtist) /\ ~HasPattern(gqlQuery, PatByCategory)
              /\ ~HasPattern(gqlQuery, PatByLocation)
              => gqlOperation = "artists"
        /\ gqlQuery = getAllArtists => gqlOperation = "artists"
        /\ gqlQuery = getArtistById => gqlOperation = "artist"
        /\ gqlQuery = getArtistsByCategory => gqlOperation = "artistsByCategory"
        /\ gqlQuery = getArtistsByLocation => gqlOperation = "artistsByLocation"

\* C7 witness: a completed request whose document holds both the single-record
\* and the category pattern, the category pattern first, classified fetch-by-id.
C7_Witness ==
    /\ gqlPc = "done"
    /\ gqlQuery = PatByCategory \o PatArtist
    /\ gqlOperation = "artist"

\* positions of the fixed record set whose record satisfies the stated
\* selection of each list operation
SelectedIndexes ==
    { i \in 1..Len(dataArtists) :
        CASE gqlOperation = "artistsByCategory" ->
               /\ "category" \in DOMAIN gqlVariables
               /\ gqlVariables.category \in
                    { dataArtists[i].categories[c] : c \in DOMAIN dataArtists[i].categories }
          [] gqlOperation = "artistsByLocation" ->
               /\ "location" \in DOMAIN gqlVariables
               /\ \E off \in 0..(Len(dataArtists[i].location) - Len(gqlVariables.location)) :
                     \A j \in 1..Len(gqlVariables.location) :
                         lowerChar(dataArtists[i].location[off + j])
                           = lowerChar(gqlVariables.location[j])
          [] OTHER -> TRUE }

\* the k-th smallest selected position
KthSelected(k) ==
    CHOOSE i \in SelectedIndexes : Cardinality({ j \in SelectedIndexes : j < i }) = k - 1

\* C8: before projection, fetch-all yields the whole fixed record set;
\* fetch-by-id the record with the given id, or null without an errors entry;
\* fetch-by-category and fetch-by-location (given its argument) exactly the
\* matching records, in the record set's order.
C8_ResolverResults ==
    gqlPc = "done" =>
        /\ gqlOperation = "artists" =>
              gqlData = [kind |-> "list", items |-> dataArtists]
        /\ gqlOperation = "artist" =>
              IF "id" \in DOMAIN gqlVariables
                 /\ \E i \in 1..Len(dataArtists) : dataArtists[i].id = gqlVariables.id
              THEN /\ gqlData.kind = "object"
                   /\ gqlData.value.id = gqlVariables.id
                   /\ \E i \in 1..Len(dataArtists) : dataArtists[i] = gqlData.value
              ELSE /\ gqlData.kind = "undefined"
                   /\ gqlResponse.data.kind = "null"
                   /\ "errors" \notin DOMAIN gqlResponse
        /\ ( \/ gqlOperation = "artistsByCategory"
             \/ gqlOperation = "artistsByLocation" /\ "location" \in DOMAIN gqlVariables ) =>
              /\ gqlData.kind = "list"
              /\ Len(gqlData.items) = Cardinality(SelectedIndexes)
              /\ \A k \in 1..Len(gqlData.items) : gqlData.items[k] = dataArtists[KthSelected(k)]

\* C8 witness: a fetch-by-location whose upper-case argument selects the
\* second of two records.
C8_Witness ==
    /\ gqlPc = "done"
    /\ gqlOperation = "artistsByLocation"
    /\ "location" \in DOMAIN gqlVariables
    /\ gqlVariables.location = <<"B","O","S">>
    /\ Len(dataArtists) = 2
    /\ gqlData.kind = "list"
    /\ gqlData.items = <<dataArtists[2]>>

\* the requested names as a set
RequestedNames == { gqlFields[i] : i \in 1..Len(gqlFields) }

\* C9: each returned record is a new record whose keys are exactly the
\* requested names that exist on the source record, with the source's values;
\* absent names cause no error; an empty field list gives empty objects; a
\* null result stays null.
C9_Projection ==
    gqlPc = "done" /\ gqlData.kind # "throw" =>
        /\ "errors" \notin DOMAIN gqlResponse
        /\ gqlData.kind = "undefined" <=> gqlResponse.data.kind = "null"
        /\ gqlData.kind \in {"list", "object"} => gqlResponse.data.kind = gqlData.kind
        /\ Len(ResponseObjects) = Len(ResolvedRecords)
        /\ \A i \in 1..Len(ResponseObjects) :
              /\ DOMAIN ResponseObjects[i]
                    = RequestedNames \cap { propertyName[k] : k \in DOMAIN ResolvedRecords[i] }
              /\ \A k \in DOMAIN ResolvedRecords[i] :
                    propertyName[k] \in DOMAIN ResponseObjects[i]
                        => ResponseObjects[i][propertyName[k]] = ResolvedRecords[i][k]
              /\ gqlFields = <<>> => DOMAIN ResponseObjects[i] = {}

\* C9 witness: a list of two records projected on a field list that names two
\* of their fields and one name they do not have.
C9_Witness ==
    /\ gqlPc = "done"
    /\ gqlQuery = docComment
    /\ Len(ResponseObjects) = 2
    /\ <<"n","i","c","k","n","a","m","e">> \in RequestedNames
    /\ DOMAIN ResponseObjects[1] = {propertyName.id, propertyName.bio}

\* C10: projecting an already projected record with the same field list gives
\* a record equal to the first projection.
C10_ProjectionIdempotent ==
    \A i \in 1..Len(ResponseObjects) :
        LET again == project(gqlFields, ResponseObjects[i])
        IN  /\ DOMAIN again = DOMAIN ResponseObjects[i]
            /\ \A f \in DOMAIN again : again[f] = ResponseObjects[i][f]

\* C10 witness: a single record projected on a field list that holds names the
\* record has and names it has not.
C10_Witness ==
    /\ gqlPc = "done"
    /\ gqlQuery = getArtistById
    /\ gqlResponse.data.kind = "object"
    /\ DOMAIN gqlResponse.data.value # {}
    /\ ~(RequestedNames \subseteq DOMAIN gqlResponse.data.value)

\* the one step of graphqlRequest that can throw on the inputs of the model:
\* fetch-by-location reads args.location.toLowerCase() for the first stored
\* record, and args.location is undefined when the mapping has no location
StepThrows ==
    /\ HasPattern(gqlQuery, PatByLocation)
    /\ ~HasPattern(gqlQuery, PatByCategory)
    /\ ~HasPattern(gqlQuery, PatArtist)
    /\ "location" \notin DOMAIN gqlVariables
    /\ dataArtists # <<>>

\* C11: graphqlRequest always settles with a response (it never rejects):
\* when a step throws, the response has data = null and an errors list with
\* one entry carrying the thrown message; when no step throws, the response
\* has no errors entry.
C11_ThrowBecomesErrorsEntry ==
    gqlPc = "done" =>
        /\ "data" \in DOMAIN gqlResponse
        /\ StepThrows =>
              /\ gqlResponse.data = [kind |-> "null"]
              /\ "errors" \in DOMAIN gqlResponse
              /\ Len(gqlResponse.errors) = 1
              /\ gqlResponse.errors[1].message
                    = "Cannot read properties of undefined (reading 'toLowerCase')"
        /\ ~StepThrows => DOMAIN gqlResponse = {"data"}

\* C11 witness: fetch-by-location called without a location over a stored
\* record set that is not empty, settled with an errors entry.
C11_Witness ==
    /\ gqlPc = "done"
    /\ gqlQuery = getArtistsByLocation
    /\ gqlVariables = <<>>
    /\ dataArtists # <<>>
    /\ "errors" \in DOMAIN gqlResponse

(***************************************************************************)
(* Listing-page load and container claims (checked under Spec).            *)
(***************************************************************************)
\* C12: the REST request of a load is issued only after its resolver call
\* has completed and failed: never while the resolver call is pending, never
\* after it succeeded.
C12_RestOnlyAfterResolverFailed ==
    \A call \in 1..Len(fetches) :
        /\ fetches[call].query = "pending" => fetches[call].rest = "none"
        /\ fetches[call].query = "ok" => fetches[call].rest = "none"
        /\ fetches[call].rest # "none" => fetches[call].query = "failed"

\* C12 witness: a load whose resolver call has failed and whose REST request
\* is in flight.
C12_Witness ==
    \E call \in 1..Len(fetches) :
        fetches[call].query = "failed" /\ fetches[call].rest = "pending"

\* the step in which the REST request of a load fails, its resolver call
\* having failed before
BothPathsFail ==
    \E call \in 1..Len(fetches) :
        /\ fetches[call].query = "failed"
        /\ fetches[call].rest = "pending"
        /\ fetches'[call].rest = "failed"

\* C13: when the REST fallback fails after the resolver failed, the record
\* set is left as it was and exactly one error notification is appended to
\* the notification list.
C13_BothFailKeepsRecords ==
    [][BothPathsFail =>
          /\ artists' = artists
          /\ Len(stateNotifications') = Len(stateNotifications) + 1
          /\ SubSeq(stateNotifications', 1, Len(stateNotifications)) = stateNotifications
          /\ stateNotifications'[Len(stateNotifications')].type = "error"
          /\ stateNotifications'[Len(stateNotifications')].message
                = <<"Failed to load artists. Please try again later.">>]_vars

\* C13 witness: both paths of a load have failed over a record set that was
\* not empty, and the last notification is the error.
C13_Witness ==
    /\ \E call \in 1..Len(fetches) :
          fetches[call].query = "failed" /\ fetches[call].rest = "failed"
    /\ artists # <<>>
    /\ stateNotifications # <<>>
    /\ stateNotifications[Len(stateNotifications)].type = "error"

\* a step of a fetchArtists call whose page instance is no longer mounted
LateResponse ==
    \E call \in 1..Len(fetches) :
        /\ fetches'[call] # fetches[call]
        /\ ~(route = "artists" /\ call = Len(fetches))

\* C14: a response that arrives after the listing page has unmounted changes
\* neither the record set nor the notification list of the container.
C14_LateResponseDiscarded ==
    [][LateResponse =>
          /\ artists' = artists
          /\ stateNotifications' = stateNotifications]_vars

\* C15: no two records of the container's record set have the same id.
C15_IdsUnique ==
    \A i \in 1..Len(artists) : \A j \in 1..Len(artists) :
        i # j => artists[i].id # artists[j].id

\* C19: on the listing page the configuration the Filter Engine reads is the
\* container's filters field.
C19_ContainerOwnsFilters ==
    route = "artists" =>
        /\ deferredFilters = stateFilters
        /\ filters = stateFilters

(***************************************************************************)
(* Container claims (checked under SpecReducer).                           *)
(***************************************************************************)
\* the slice of the container an action type may change
SliceOf(type) ==
    CASE type \in {"SET_ARTISTS", "ADD_TEMPORARY_ARTIST"} -> "artists"
      [] type \in {"SET_FILTERS", "CLEAR_FILTERS"} -> "filters"
      [] type \in {"ADD_NOTIFICATION", "REMOVE_NOTIFICATION"} -> "notifications"
      [] type = "SET_LOADING" -> "isLoading"
      [] type = "SET_THEME" -> "theme"

\* C16: each container action changes only its own slice: in every reachable
\* state of the container and for every action, the reducer's result has the
\* same fields as the state and differs from it at most in the action's slice.
C16_ActionChangesOwnSlice ==
    \A action \in AppActions :
        LET next == appReducer(state, action)
        IN  /\ DOMAIN next = DOMAIN state
            /\ \A slice \in DOMAIN state :
                  slice # SliceOf(action.type) => next[slice] = state[slice]

\* C16 witness: a container in which every slice differs from its initial
\* value, so that an action that reset or dropped another slice would show.
C16_Witness ==
    /\ artists # initialState.artists
    /\ stateIsLoading # initialState.isLoading
    /\ stateFilters # initialState.filters
    /\ stateTheme # initialState.theme
    /\ stateNotifications # initialState.notifications

(***************************************************************************)
(* Filter configuration write claims (checked under SpecWrites).           *)
(***************************************************************************)
FilterFields == {"category", "location", "price"}

\* the configuration a holder has after its last write
WrittenConfiguration ==
    IF lastWrite.holder = "hook" THEN nextFilters ELSE stateFilters

\* C17: a filter write with a partial payload, on the container or on the
\* hook, sets exactly the fields the payload names and keeps the value every
\* other field had before the write.
C17_PartialWriteKeepsOtherFields ==
    (lastWrite.holder # "none" /\ lastWrite.kind = "update") =>
        /\ DOMAIN WrittenConfiguration = FilterFields
        /\ \A field \in FilterFields :
              WrittenConfiguration[field] =
                  IF field \in DOMAIN lastWrite.payload
                  THEN lastWrite.payload[field]
                  ELSE lastWrite.before[field]

\* C17 witness: a one-field write that found the other two fields away from
\* their defaults, in a state where both holders have been written.
C17_Witness ==
    /\ lastWrite.holder # "none"
    /\ lastWrite.kind = "update"
    /\ DOMAIN lastWrite.payload = {"location"}
    /\ lastWrite.before.category # "all"
    /\ lastWrite.before.price # <<0, 5000>>
    /\ stateFilters.category # "all"
    /\ nextFilters.category # "all"

\* C18: an explicit clear, on the container or on the hook, gives the
\* creation defaults whatever the configuration was before, a category taken
\* from the URL included; the hook shows them once the clear has committed;
\* clearing the container twice gives what clearing it once gives.
C18_ClearGivesDefaults ==
    /\ (lastWrite.holder # "none" /\ lastWrite.kind = "clear") =>
          /\ WrittenConfiguration
                = [category |-> "all", location |-> <<>>, price |-> <<0, 5000>>]
          /\ (lastWrite.holder = "hook" /\ ~isPending) =>
                /\ filters = [category |-> "all", location |-> <<>>, price |-> <<0, 5000>>]
                /\ deferredFilters = filters
    /\ LET once == appReducer(state, [type |-> "CLEAR_FILTERS"])
       IN  appReducer(once, [type |-> "CLEAR_FILTERS"]) = once

\* C18 witness: the hook, mounted on a URL with a category, cleared over a
\* configuration that had that category, and the clear committed.
C18_Witness ==
    /\ initialCategory = "singer"
    /\ lastWrite.holder = "hook"
    /\ lastWrite.kind = "clear"
    /\ lastWrite.before.category = "singer"
    /\ ~isPending
    /\ filters.category = "all"

(***************************************************************************)
(* Filter Engine liveness (checked under SpecFilterFair).                  *)
(***************************************************************************)
\* a step that writes the filter configuration
FilterWrite == nextFilters' # nextFilters \/ (isPending' /\ ~isPending)

\* the presented result is the engine's result for the last written
\* configuration over the current record set, and nothing is pending
Consistent ==
    /\ ~isPending
    /\ filteredArtists = filterArtists(artists, nextFilters)

\* C20: if from some point on no filter write occurs, then eventually, and
\* from then on, filteredArtists is the engine's result for the last written
\* configuration and the pending flag is false.
C20_EventuallyConsistent == <>[][~FilterWrite]_vars => <>[]Consistent

\* C20 witness: a write has committed, the presented result is the result for
\* the written configuration, and that result differs from the record set.
C20_Witness ==
    /\ Consistent
    /\ nextFilters # DefaultFilters
    /\ filteredArtists # artists
    /\ filteredArtists # <<>>

(***************************************************************************)
(* Filter Engine claims on lagging results and derived facets (checked     *)
(* under SpecFilter).                                                      *)
(***************************************************************************)
\* C21: whenever the presented filteredArtists comes from a configuration
\* older than the latest written one, isPending is true.
C21_StaleResultIsFlagged ==
    deferredFilters # nextFilters => isPending

\* C21 witness: a write is pending and the presented result is not the
\* engine's result for the written configuration.
C21_Witness ==
    /\ isPending
    /\ deferredFilters # nextFilters
    /\ filteredArtists # filterArtists(artists, nextFilters)

(***************************************************************************)
(* Listing page and onboarding claims (checked under Spec).                *)
(***************************************************************************)
\* C22: the category of the filter configuration is 'all' or a value of the
\* fixed vocabulary, also when it comes from the URL of the listing page.
C22_CategoryInVocabulary ==
    /\ nextFilters.category \in {"all"} \cup categories
    /\ filters.category \in {"all"} \cup categories
    /\ deferredFilters.category \in {"all"} \cup categories

(***************************************************************************)
(* Derived facets (checked under SpecFilter).                              *)
(***************************************************************************)
\* a is before b in ascending lexicographic order of code units
LexLess(a, b) ==
    \/ Len(a) < Len(b) /\ SubSeq(b, 1, Len(a)) = a
    \/ \E k \in 1..Len(a) :
          /\ k <= Len(b)
          /\ SubSeq(a, 1, k - 1) = SubSeq(b, 1, k - 1)
          /\ charCodeAt(a[k]) < charCodeAt(b[k])

\* C23: availableLocations is sorted ascending without duplicates and holds
\* exactly the locations present in the record set; it is empty for the empty
\* record set, and the filter configuration has no part in it.
C23_LocationsSortedDistinctExact ==
    /\ \A i \in 1..Len(availableLocations) : \A j \in 1..Len(availableLocations) :
          i < j => LexLess(availableLocations[i], availableLocations[j])
    /\ { availableLocations[i] : i \in 1..Len(availableLocations) }
          = { artists[i].location : i \in 1..Len(artists) }
    /\ artists = <<>> => availableLocations = <<>>

\* C23 witness: a record set whose locations are not in ascending order,
\* under a filter configuration that is not the default one.
C23_Witness ==
    /\ Len(artists) >= 2
    /\ LexLess(artists[2].location, artists[1].location)
    /\ deferredFilters # DefaultFilters
    /\ Len(availableLocations) >= 2

\* C24: priceStats is {min: 0, max: 5000} for the empty record set; otherwise
\* its min is the least priceRange.min and its max the greatest priceRange.max
\* of the records.
C24_PriceStatsAreBounds ==
    /\ artists = <<>> => priceStats = [min |-> 0, max |-> 5000]
    /\ artists # <<>> =>
          /\ \E i \in 1..Len(artists) : priceStats.min = artists[i].priceRange.min
          /\ \A i \in 1..Len(artists) : priceStats.min <= artists[i].priceRange.min
          /\ \E i \in 1..Len(artists) : priceStats.max = artists[i].priceRange.max
          /\ \A i \in 1..Len(artists) : priceStats.max >= artists[i].priceRange.max

\* C24 witness: two records, the second with both the least minimum and the
\* greatest maximum.
C24_Witness ==
    /\ Len(artists) >= 2
    /\ artists[2].priceRange.min < artists[1].priceRange.min
    /\ artists[2].priceRange.max > artists[1].priceRange.max
    /\ priceStats = artists[2].priceRange

(***************************************************************************)
(* Listing-page load liveness (checked under SpecFair).                    *)
(***************************************************************************)
\* C25: on a mounted listing page the loading flag, true from the start of
\* the load, becomes false with hasLoadedInitialData true, on every path of
\* the load (unless the page is left first); from then on the page, while it
\* stays mounted, keeps both flags and starts no further fetch.
C25_LoadFinishes ==
    /\ (route = "artists" /\ isLoading)
          ~> ((route = "artists" /\ ~isLoading /\ hasLoadedInitialData) \/ route # "artists")
    /\ [][(route = "artists" /\ hasLoadedInitialData /\ route' = "artists") =>
             /\ Len(fetches') = Len(fetches)
             /\ hasLoadedInitialData'
             /\ ~isLoading']_vars

\* C25 witness: the page is mounted, both paths of its load have failed, and
\* the load has finished.
C25_Witness ==
    /\ route = "artists"
    /\ ~isLoading
    /\ hasLoadedInitialData
    /\ fetches[Len(fetches)].query = "failed"
    /\ fetches[Len(fetches)].rest = "failed"


\* a load installs its records in this step: the resolver's or the REST
\* route's answer of a fetchArtists call is dispatched as SET_ARTISTS
LoadInstalls ==
    \E call \in 1..Len(fetches) :
        \/ fetches[call].query = "pending" /\ fetches' = [fetches EXCEPT ![call].query = "ok"]
        \/ fetches[call].rest = "pending" /\ fetches' = [fetches EXCEPT ![call].rest = "ok"]

IsTemporary(artist) ==
    Len(artist.id) >= 5 /\ SubSeq(artist.id, 1, 5) = <<"t", "e", "m", "p", "-">>

\* C26: whenever a load's SET_ARTISTS is applied, every temp- record of the
\* container's record set before the step is in the record set after it,
\* records appended while the fetch was in flight included.
C26_TemporaryRecordsSurviveLoad ==
    [][LoadInstalls =>
          \A i \in 1..Len(artists) :
              IsTemporary(artists[i]) =>
                  \E j \in 1..Len(artists') : artists'[j] = artists[i]]_vars


\* C27: a validated onboarding submission appends exactly one record at the
\* end of the record set, the records before it kept in their order, and
\* exactly one success notification at the end of the notification list;
\* the other slices of the container are unchanged.
C27_SubmissionAppends ==
    [][\A values \in FormValues :
          onSubmit(values) =>
              /\ Len(artists') = Len(artists) + 1
              /\ SubSeq(artists', 1, Len(artists)) = artists
              /\ artists'[Len(artists')].name = values.name
              /\ IsTemporary(artists'[Len(artists')])
              /\ Len(stateNotifications') = Len(stateNotifications) + 1
              /\ SubSeq(stateNotifications', 1, Len(stateNotifications)) = stateNotifications
              /\ stateNotifications'[Len(stateNotifications')].type = "success"
              /\ stateFilters' = stateFilters
              /\ stateIsLoading' = stateIsLoading
              /\ stateTheme' = stateTheme]_vars

\* C27 witness: a submission was made over loaded records and an earlier
\* notification: its record is the last of three or more, its notification
\* the last of two.
C27_Witness ==
    /\ route = "onboarding"
    /\ Len(artists) >= 3
    /\ ~IsTemporary(artists[1])
    /\ IsTemporary(artists[Len(artists)])
    /\ Len(stateNotifications) = 2
    /\ stateNotifications[Len(stateNotifications)].type = "success"


\* C28: every record made by transformFormDataToArtist, whatever the fee
\* range of the form (one of the five listed or any other string), has an id
\* that starts with 'temp-' and a price interval of non-negative integers
\* with min <= max, and passes the default filter configuration.
C28_SubmittedRecordIsListed ==
    \A i \in 1..Len(artists) :
        /\ IsTemporary(artists[i])
        /\ artists[i].priceRange.min \in Nat
        /\ artists[i].priceRange.max \in Nat
        /\ artists[i].priceRange.min <= artists[i].priceRange.max
        /\ artistPasses(artists[i], DefaultFilters)

\* C28 witness: a submission with the open-ended range '5000+' and one with
\* a string that is no listed range are both in the record set.
C28_Witness ==
    /\ \E i \in 1..Len(artists) : artists[i].priceRange = [min |-> 5000, max |-> 10000]
    /\ \E j \in 1..Len(artists) : artists[j].priceRange = [min |-> 0, max |-> 1000]


\* C29: the record set a load installs does not depend on the path that
\* supplied it: when the resolver's answer of a call is installed, the
\* record set is the one the REST route's answer installs for the same
\* stored records and the same retained temp- records, field for field.
C29_LoadPathsAgree ==
    [][\A call \in 1..Len(fetches) :
          (fetches[call].query = "pending"
             /\ fetches' = [fetches EXCEPT ![call].query = "ok"])
          => artists' = dataArtists \o temporaryArtists(fetches[call].artists)]_vars


\* the notifications of the list that carry the identifier
NotificationsWithId(id) ==
    { i \in 1..Len(stateNotifications) : stateNotifications[i].id = id }

\* C30: the identifiers of the notification list are unique in every
\* reachable state, so REMOVE_NOTIFICATION with an identifier of the list
\* removes exactly one notification and keeps the others in order, and with
\* an identifier not in the list changes nothing.
C30_NotificationIdsUnique ==
    /\ [](\A i, j \in 1..Len(stateNotifications) :
             stateNotifications[i].id = stateNotifications[j].id => i = j)
    /\ [][\A t \in 0..(MaxTime + 1) :
             dispatch([type |-> "REMOVE_NOTIFICATION", payload |-> numberToString(t)]) =>
                 IF NotificationsWithId(numberToString(t)) = {}
                 THEN stateNotifications' = stateNotifications
                 ELSE /\ Len(stateNotifications') = Len(stateNotifications) - 1
                      /\ \E i \in NotificationsWithId(numberToString(t)) :
                            stateNotifications' =
                                SubSeq(stateNotifications, 1, i - 1)
                                  \o SubSeq(stateNotifications, i + 1, Len(stateNotifications))]_vars

====
